---------------------------- MODULE Spec2Model ----------------------------
(***************************************************************************)
(* Model of the methylome extractor (constantingoeldel/extractor):         *)
(* the gene index lookup, the site parser, the placement of CG sites in    *)
(* windows, the window container and the per-file extraction loop.         *)
(*                                                                         *)
(* place_in_windows computes in f32.  The f32 values are modelled          *)
(* bit-exactly: a finite value is the pair <<m, e>> standing for m * 2^e   *)
(* with 2^23 <= |m| < 2^24 (zero is <<0, 0>>), every operation rounds to   *)
(* nearest, ties to even, as IEEE 754 binary32 does.  Exponents stay far   *)
(* from the subnormal and overflow ranges for the magnitudes of the model. *)
(***************************************************************************)
EXTENDS Integers, Sequences, FiniteSets, TLC

(***************************************************************************)
(* f32 arithmetic                                                          *)
(***************************************************************************)
Abs(n) == IF n < 0 THEN -n ELSE n

Sgn(n) == IF n < 0 THEN -1 ELSE 1

\* 2^0 .. 2^30
PowersOfTwo ==
    <<1, 2, 4, 8, 16, 32, 64, 128, 256, 512, 1024, 2048, 4096, 8192, 16384,
      32768, 65536, 131072, 262144, 524288, 1048576, 2097152, 4194304,
      8388608, 16777216, 33554432, 67108864, 134217728, 268435456,
      536870912, 1073741824>>

Pow2(k) == PowersOfTwo[k + 1]

\* number of binary digits of n, 0 <= n < 2^31 (0 for n = 0), by bisection:
\* the answer b, lo <= b <= hi, is the least with n < 2^b
RECURSIVE BitLenBetween(_, _, _)
BitLenBetween(n, lo, hi) ==
    IF lo = hi THEN lo
    ELSE LET mid == (lo + hi) \div 2
         IN  IF n < Pow2(mid) THEN BitLenBetween(n, lo, mid)
             ELSE BitLenBetween(n, mid + 1, hi)

BitLen(n) == BitLenBetween(n, 0, 31)

NaN == <<0, 9999>>

F32Zero == <<0, 0>>

IsNaN(a) == a = NaN

\* sign * a * 2^e with the k lowest bits of a, a number of 24 + k bits,
\* rounded away: to nearest, ties to even
F32RoundBits(sign, a, k, e) ==
    LET q    == a \div Pow2(k)
        r    == a % Pow2(k)
        half == Pow2(k - 1)
        up   == r > half \/ (r = half /\ q % 2 = 1)
        q2   == IF up THEN q + 1 ELSE q
    IN  IF q2 = Pow2(24)
        THEN <<sign * Pow2(23), e + k + 1>>
        ELSE <<sign * q2, e + k>>

\* sign * a * 2^e as an f32, a > 0 having b binary digits
F32Normal(sign, a, b, e) ==
    IF b <= 24
    THEN <<sign * a * Pow2(24 - b), e - (24 - b)>>
    ELSE F32RoundBits(sign, a, b - 24, e)

\* The f32 nearest to n * 2^e, ties to even; n is an integer, |n| < 2^31.
F32Round(n, e) ==
    IF n = 0 THEN F32Zero ELSE F32Normal(Sgn(n), Abs(n), BitLen(Abs(n)), e)

\* `x as f32` for an i32 or usize x of the model's range
F32FromInt(x) == F32Round(x, 0)

F32Neg(a) == IF IsNaN(a) THEN NaN ELSE <<-a[1], a[2]>>

\* the mantissa of b shifted right by d places below three guard bits, the
\* bits shifted out jammed into the lowest bit
F32Aligned(mb, d) ==
    IF d > 27 THEN 1
    ELSE LET t == (mb * 8) \div Pow2(d)
             s == (mb * 8) % Pow2(d)
         IN  IF s # 0 /\ t % 2 = 0 THEN t + 1 ELSE t

F32AddOrdered(a, b) ==   \* a[2] >= b[2], both non-zero
    F32Round(a[1] * 8 + Sgn(b[1]) * F32Aligned(Abs(b[1]), a[2] - b[2]), a[2] - 3)

F32Add(a, b) ==
    IF IsNaN(a) \/ IsNaN(b) THEN NaN
    ELSE IF a[1] = 0 THEN b
    ELSE IF b[1] = 0 THEN a
    ELSE IF a[2] >= b[2] THEN F32AddOrdered(a, b) ELSE F32AddOrdered(b, a)

F32Sub(a, b) == F32Add(a, F32Neg(b))

\* a with its mantissa shifted right by k places when its k lowest bits are 0
F32Strip(a, k) ==
    IF a[1] % Pow2(k) = 0 THEN <<a[1] \div Pow2(k), a[2] + k>> ELSE a

\* the mantissa without its trailing zero bits (at most 23), and the exponent
\* to match
F32Odd(a) ==
    IF a[1] = 0 THEN a
    ELSE F32Strip(F32Strip(F32Strip(F32Strip(F32Strip(a, 16), 8), 4), 2), 1)

\* exact product of the reduced mantissas, rounded once; the product of the
\* reduced mantissas is below 2^31 for every operand of the model
F32MulOdd(x, y) == F32Round(x[1] * y[1], x[2] + y[2])

F32Mul(a, b) ==
    IF IsNaN(a) \/ IsNaN(b) THEN NaN ELSE F32MulOdd(F32Odd(a), F32Odd(b))

\* long division, one quotient bit a step: k more steps to go, q the bits so
\* far, r the remainder (26 steps give the 24 bits, a round bit and more)
RECURSIVE F32DivBits(_, _, _, _)
F32DivBits(q, r, d, k) ==
    IF k = 0 THEN <<q, r>>
    ELSE F32DivBits(2 * q + ((2 * r) \div d), (2 * r) % d, d, k - 1)

\* the quotient bits qr[1] with a non-zero remainder qr[2] jammed into the
\* lowest bit
F32Jam(qr) == IF qr[2] # 0 /\ qr[1] % 2 = 0 THEN qr[1] + 1 ELSE qr[1]

\* a / b for b # 0 (0 / 0 is NaN; x / 0 with x # 0 does not occur in the model)
F32Div(a, b) ==
    IF IsNaN(a) \/ IsNaN(b) \/ b[1] = 0 THEN NaN
    ELSE IF a[1] = 0 THEN F32Zero
    ELSE F32Round(Sgn(a[1]) * Sgn(b[1])
                      * F32Jam(F32DivBits(Abs(a[1]) \div Abs(b[1]),
                                          Abs(a[1]) % Abs(b[1]), Abs(b[1]), 26)),
                  a[2] - b[2] - 26)

\* a < b; every comparison with NaN is false
F32Lt(a, b) ==
    IF IsNaN(a) \/ IsNaN(b) THEN FALSE
    ELSE IF a[1] = 0 THEN b[1] > 0
    ELSE IF b[1] = 0 THEN a[1] < 0
    ELSE IF Sgn(a[1]) # Sgn(b[1]) THEN a[1] < 0
    ELSE IF a[2] # b[2] THEN (IF a[1] > 0 THEN a[2] < b[2] ELSE a[2] > b[2])
    ELSE a[1] < b[1]

F32Le(a, b) == ~IsNaN(a) /\ ~IsNaN(b) /\ (a = b \/ F32Lt(a, b))

F32Gt(a, b) == F32Lt(b, a)

F32Ge(a, b) == F32Le(b, a)

(***************************************************************************)
(* Data: Strand, Region, Gene, MethylationSite, Args                       *)
(***************************************************************************)
Sense == "Sense"

Antisense == "Antisense"

Strands == {Sense, Antisense}

Upstream == "Upstream"

GeneRegion == "Gene"

Downstream == "Downstream"

Regions == <<Upstream, GeneRegion, Downstream>>

\* Option: None, or Some(x) holding x
None == <<>>

Some(x) == <<x>>

Gene(chromosome, start, end, strand) ==
    [chromosome |-> chromosome, start |-> start, end |-> end, strand |-> strand]

MethylationSite(chromosome, location, strand, original) ==
    [chromosome |-> chromosome, location |-> location, strand |-> strand,
     original |-> original]

\* the fields of Args the core reads
Args(window_size, window_step, absolute, cutoff, invert) ==
    [window_size |-> window_size, window_step |-> window_step,
     absolute |-> absolute, cutoff |-> cutoff, invert |-> invert]

(***************************************************************************)
(* Windows                                                                 *)
(***************************************************************************)
RelativeWindowCount == 100

EmptyWindows(n) == [i \in 1..n |-> <<>>]

\* Windows sized by window_size where Windows::new divides by window_step
WindowsNewBySize(max_gene_length, args) ==
    LET gene_window_count ==
            IF args.absolute THEN max_gene_length \div args.window_size
            ELSE RelativeWindowCount
        up_down_window_count ==
            IF args.absolute THEN args.cutoff \div args.window_size
            ELSE RelativeWindowCount
    IN  [upstream   |-> EmptyWindows(up_down_window_count),
         gene       |-> EmptyWindows(gene_window_count),
         downstream |-> EmptyWindows(up_down_window_count)]

\* Windows::new
WindowsNew(max_gene_length, args) ==
    LET gene_window_count ==
            IF args.absolute THEN max_gene_length \div args.window_step
            ELSE RelativeWindowCount
        up_down_window_count ==
            IF args.absolute THEN args.cutoff \div args.window_step
            ELSE RelativeWindowCount
    IN  [upstream   |-> EmptyWindows(up_down_window_count),
         gene       |-> EmptyWindows(gene_window_count),
         downstream |-> EmptyWindows(up_down_window_count)]

\* Windows::get / Windows::get_mut: the array of a region
WindowsGet(windows, region) ==
    CASE region = Upstream   -> windows.upstream
      [] region = GeneRegion -> windows.gene
      [] region = Downstream -> windows.downstream

WindowsSet(windows, region, array) ==
    CASE region = Upstream   -> [windows EXCEPT !.upstream = array]
      [] region = GeneRegion -> [windows EXCEPT !.gene = array]
      [] region = Downstream -> [windows EXCEPT !.downstream = array]

Reverse(s) == [i \in 1..Len(s) |-> s[Len(s) + 1 - i]]

\* Windows::inverse: the three assignments in the order the code makes them;
\* the third reads self.upstream after the first has overwritten it
WindowsInverse(windows) ==
    LET w1 == [windows EXCEPT !.upstream = Reverse(windows.downstream)]
        w2 == [w1 EXCEPT !.gene = Reverse(w1.gene)]
        w3 == [w2 EXCEPT !.downstream = Reverse(w2.upstream)]
    IN  w3

(***************************************************************************)
(* place_in_windows                                                        *)
(***************************************************************************)
\* const E: f32 = 0.1
E == <<13421773, -27>>

\* 100.0
Hundred == F32FromInt(100)

Offset(site, gene) ==
    IF site.strand = Sense
    THEN F32Sub(F32FromInt(site.location), F32FromInt(gene.start))
    ELSE F32Sub(F32FromInt(gene.end), F32FromInt(site.location))

GeneLength(gene) == F32Sub(F32FromInt(gene.end), F32FromInt(gene.start))

\* a match on offset that sends the site at the very end of the gene downstream
RegionAtInclusive(offset, length) ==
    IF F32Lt(offset, F32Zero) THEN Upstream
    ELSE IF F32Ge(offset, length) THEN Downstream
    ELSE GeneRegion

\* the match on offset: x < 0 upstream, x > length downstream, else the gene
RegionAt(offset, length) ==
    IF F32Lt(offset, F32Zero) THEN Upstream
    ELSE IF F32Gt(offset, length) THEN Downstream
    ELSE GeneRegion

RegionOf(site, gene) == RegionAt(Offset(site, gene), GeneLength(gene))

\* the match on (region, strand): position within the region, in base pairs
RawPosition(site, gene, region, cutoff) ==
    CASE region = Upstream /\ site.strand = Sense ->
            F32Add(F32Sub(F32FromInt(site.location), F32FromInt(gene.start)),
                   F32FromInt(cutoff))
      [] region = GeneRegion /\ site.strand = Sense ->
            F32Sub(F32FromInt(site.location), F32FromInt(gene.start))
      [] region = Downstream /\ site.strand = Sense ->
            F32Sub(F32FromInt(site.location), F32FromInt(gene.end))
      [] region = Upstream /\ site.strand = Antisense ->
            F32Add(F32Sub(F32FromInt(gene.end), F32FromInt(site.location)),
                   F32FromInt(cutoff))
      [] region = GeneRegion /\ site.strand = Antisense ->
            F32Sub(F32FromInt(gene.end), F32FromInt(site.location))
      [] region = Downstream /\ site.strand = Antisense ->
            F32Sub(F32FromInt(gene.start), F32FromInt(site.location))

\* if !args.absolute: the position as a percentage of the region's length
Percent(raw, region, gene, cutoff) ==
    F32Mul(IF region = GeneRegion
           THEN F32Div(raw, GeneLength(gene))
           ELSE F32Div(raw, F32FromInt(cutoff)),
           Hundred)

\* position as the bins see it, for a site of the given region
PositionIn(site, gene, region, args) ==
    IF args.absolute THEN RawPosition(site, gene, region, args.cutoff)
    ELSE Percent(RawPosition(site, gene, region, args.cutoff), region, gene,
                 args.cutoff)

Position(site, gene, args) == PositionIn(site, gene, RegionOf(site, gene), args)

\* a lower bound that counts the windows from 1
LowerBoundOneBased(i, args) ==
    F32Sub(F32Mul(F32FromInt(i + 1), F32FromInt(args.window_step)), E)

\* i is the 0-based window index
LowerBound(i, args) ==
    F32Sub(F32Mul(F32FromInt(i), F32FromInt(args.window_step)), E)

UpperBound(lower_bound, args) ==
    F32Add(F32Add(lower_bound, F32FromInt(args.window_size)), E)

\* position >= lower_bound && position <= upper_bound
Between(position, lower_bound, upper_bound) ==
    F32Ge(position, lower_bound) /\ F32Le(position, upper_bound)

InBounds(position, lower_bound, args) ==
    Between(position, lower_bound, UpperBound(lower_bound, args))

InWindow(position, i, args) == InBounds(position, LowerBound(i, args), args)

\* the loop over local_windows.iter_mut().enumerate(): the indices i of
\* 0..n-1 that pass the test, in ascending order
WindowsIn(position, n, args) ==
    SelectSeq([k \in 1..n |-> k - 1], LAMBDA i : InWindow(position, i, args))

\* windows with site pushed to the bins hit of the region's array
\* an insertion in front of the sites a window holds
PushedInFront(site, region, hit, windows) ==
    WindowsSet(windows, region,
               [k \in 1..Len(WindowsGet(windows, region)) |->
                   IF \E h \in 1..Len(hit) : hit[h] = k - 1
                   THEN <<site>> \o WindowsGet(windows, region)[k]
                   ELSE WindowsGet(windows, region)[k]])

Pushed(site, region, hit, windows) ==
    WindowsSet(windows, region,
               [k \in 1..Len(WindowsGet(windows, region)) |->
                   IF \E h \in 1..Len(hit) : hit[h] = k - 1
                   THEN Append(WindowsGet(windows, region)[k], site)
                   ELSE WindowsGet(windows, region)[k]])

Placed(site, region, hit, windows) ==
    [windows    |-> Pushed(site, region, hit, windows),
     windows_in |-> [k \in 1..Len(hit) |-> <<region, hit[k]>>]]

PlaceIn(site, gene, region, windows, args) ==
    Placed(site, region,
           WindowsIn(PositionIn(site, gene, region, args),
                     Len(WindowsGet(windows, region)), args),
           windows)

\* place_in_windows: the windows after the call and the returned list
PlaceInWindows(site, gene, windows, args) ==
    PlaceIn(site, gene, RegionOf(site, gene), windows, args)

(***************************************************************************)
(* is_in_gene, find_gene                                                   *)
(***************************************************************************)
\* a test that leaves the boundary of the extended interval out
IsInGeneExclusive(site, gene, cutoff) ==
    /\ site.chromosome = gene.chromosome
    /\ gene.start < site.location + cutoff
    /\ site.location < gene.end + cutoff
    /\ site.strand = gene.strand

IsInGene(site, gene, cutoff) ==
    /\ site.chromosome = gene.chromosome
    /\ gene.start <= site.location + cutoff
    /\ site.location <= gene.end + cutoff
    /\ site.strand = gene.strand

\* a search keyed by gene.end alone, the cutoff left out of the key
RECURSIVE BinarySearchByEnd(_, _, _, _, _)
BinarySearchByEnd(strand, location, cutoff, left, right) ==
    IF left >= right THEN left
    ELSE LET mid == left + (right - left) \div 2
             key == strand[mid + 1].end
         IN  IF key < location
             THEN BinarySearchByEnd(strand, location, cutoff, mid + 1, right)
             ELSE IF key > location
             THEN BinarySearchByEnd(strand, location, cutoff, left, mid)
             ELSE mid

\* slice::binary_search_by_key(&location, |gene| gene.end + cutoff)
\* .unwrap_or_else(|x| x): the index of a match, else the insertion point
\* (0-based); left and right delimit the part still searched
RECURSIVE BinarySearch(_, _, _, _, _)
BinarySearch(strand, location, cutoff, left, right) ==
    IF left >= right THEN left
    ELSE LET mid == left + (right - left) \div 2
             key == strand[mid + 1].end + cutoff
         IN  IF key < location THEN BinarySearch(strand, location, cutoff, mid + 1, right)
             ELSE IF key > location THEN BinarySearch(strand, location, cutoff, left, mid)
             ELSE mid

\* find_gene for a site whose chromosome is inside the index
FindGene(site, genome, cutoff) ==
    LET chromosome == genome[site.chromosome]
        strand     == IF site.strand = Sense THEN chromosome.sense
                      ELSE chromosome.antisense
        first_matching_gene_index ==
            BinarySearch(strand, site.location, cutoff, 0, Len(strand))
    IN  IF Len(strand) < first_matching_gene_index + 1 THEN None
        ELSE LET gene == strand[first_matching_gene_index + 1]
             IN  IF IsInGene(site, gene, cutoff) THEN Some(gene) ELSE None

(***************************************************************************)
(* from_methylome_file_line.  A line is the sequence of its characters.    *)
(***************************************************************************)
Tab == "\t"

Digits == <<"0", "1", "2", "3", "4", "5", "6", "7", "8", "9">>

IsDigit(c) == \E d \in 1..10 : Digits[d] = c

DigitValue(c) == (CHOOSE d \in 1..10 : Digits[d] = c) - 1

U8Max == 255

I32Max == 2147483647

I32Min == -I32Max - 1

\* str::split('\t'): the fields between the tabs; "" has the one field ""
RECURSIVE SplitFrom(_, _, _)
SplitFrom(s, k, field) ==
    IF k > Len(s) THEN <<field>>
    ELSE IF s[k] = Tab THEN <<field>> \o SplitFrom(s, k + 1, <<>>)
    ELSE SplitFrom(s, k + 1, Append(field, s[k]))

Split(s) == SplitFrom(s, 1, <<>>)

Ok(v) == [ok |-> TRUE, value |-> v]

Err(e) == [ok |-> FALSE, error |-> e]

\* the digit loop of from_str_radix: checked_mul by 10, then checked_add of the
\* digit (checked_sub for a negative number)
RECURSIVE ParseDigits(_, _, _, _, _, _)
ParseDigits(s, k, result, positive, min, max) ==
    IF k > Len(s) THEN Ok(result)
    ELSE IF ~IsDigit(s[k]) THEN Err("InvalidDigit")
    ELSE LET d == DigitValue(s[k])
         IN  IF positive
             THEN IF result > (max - d) \div 10 THEN Err("PosOverflow")
                  ELSE ParseDigits(s, k + 1, result * 10 + d, positive, min, max)
             ELSE IF result < (min + d + 9) \div 10 THEN Err("NegOverflow")
                  ELSE ParseDigits(s, k + 1, result * 10 - d, positive, min, max)

\* str::parse::<T>() for an integer type T with the range min..max
ParseInt(s, min, max) ==
    IF Len(s) = 0 THEN Err("Empty")
    ELSE IF s = <<"+">> \/ s = <<"-">> THEN Err("InvalidDigit")
    ELSE IF s[1] = "+" THEN ParseDigits(s, 2, 0, TRUE, min, max)
    ELSE IF s[1] = "-" /\ min < 0 THEN ParseDigits(s, 2, 0, FALSE, min, max)
    ELSE ParseDigits(s, 1, 0, TRUE, min, max)

\* a chromosome parsed with the range of i32
ParseAsI32(s) == ParseInt(s, I32Min, I32Max)

ParseU8(s) == ParseInt(s, 0, U8Max)

ParseI32(s) == ParseInt(s, I32Min, I32Max)

FieldCount == 9

\* MethylationSite::from_methylome_file_line
FromMethylomeFileLine(s, invert_strand) ==
    LET fields == Split(s)
    IN  IF Len(fields) # FieldCount THEN Err("CGSite")
        ELSE IF fields[4] # <<"C", "G">> THEN Err("CGSite")
        ELSE LET chromosome == ParseU8(fields[1])
                 location   == ParseI32(fields[2])
             IN  IF ~chromosome.ok THEN Err("ParseInt")
                 ELSE IF ~location.ok THEN Err("ParseInt")
                 ELSE Ok(MethylationSite(
                         chromosome.value, location.value,
                         IF (fields[3] = <<"+">>) # invert_strand
                         THEN Sense ELSE Antisense,
                         s))

(***************************************************************************)
(* extract (lib.rs): the default window step, the index, max_gene_length   *)
(***************************************************************************)
\* lib.rs: if args.window_step == 0 { args.window_step = args.window_size }
AdjustWindowStep(a) ==
    IF a.window_step = 0 THEN [a EXCEPT !.window_step = a.window_size] ELSE a

\* genes.sort_by_key(|g| g.start): a stable sort, here by insertion
RECURSIVE InsertByStart(_, _)
InsertByStart(sorted, g) ==
    IF sorted = <<>> THEN <<g>>
    ELSE IF sorted[Len(sorted)].start <= g.start THEN Append(sorted, g)
    ELSE Append(InsertByStart(SubSeq(sorted, 1, Len(sorted) - 1), g),
                sorted[Len(sorted)])

RECURSIVE SortByStart(_)
SortByStart(genes) ==
    IF genes = <<>> THEN <<>>
    ELSE InsertByStart(SortByStart(SubSeq(genes, 1, Len(genes) - 1)),
                       genes[Len(genes)])

\* genes.iter().max_by_key(|g| g.chromosome).unwrap().chromosome
ChromosomeCount(genes) ==
    CHOOSE c \in {genes[k].chromosome : k \in 1..Len(genes)} :
        \A k \in 1..Len(genes) : genes[k].chromosome <= c

\* structured_genes: one GenesByStrand a chromosome, each gene pushed to the
\* bucket of its chromosome and strand in the order of the sorted list
StructuredGenes(genes) ==
    LET sorted == SortByStart(genes)
        Bucket(c, strand) ==
            SelectSeq(sorted, LAMBDA g : g.chromosome = c /\ g.strand = strand)
    IN  [c \in 1..ChromosomeCount(genes) |->
            [sense |-> Bucket(c, Sense), antisense |-> Bucket(c, Antisense)]]

MinMaxGeneLength == 100

\* max_gene_length: 100 unless a gene is longer and sizes are absolute
RECURSIVE LongestFrom(_, _, _)
LongestFrom(genes, k, longest) ==
    IF k > Len(genes) THEN longest
    ELSE LET length == genes[k].end - genes[k].start
         IN  LongestFrom(genes, k + 1, IF length > longest THEN length ELSE longest)

MaxGeneLengthOf(genes, a) ==
    IF a.absolute THEN LongestFrom(genes, 1, MinMaxGeneLength) ELSE MinMaxGeneLength

(***************************************************************************)
(* State                                                                   *)
(***************************************************************************)
VARIABLES
    pc,               \* where the run is
    given,            \* history: the Args as given on the command line
    args,             \* the Args
    genes,            \* the genes parsed from the annotation file
    genome,           \* the index: per chromosome the genes of each strand
    max_gene_length,
    windows,          \* the Windows of the file being extracted
    last_gene,        \* extract_windows: the sticky gene
    line_index,       \* extract_windows: lines consumed so far
    seen,             \* history: the line results consumed after the header
    ascending,        \* history: the CG records so far ascend within each chromosome
    last_location,    \* history: <<chromosome, location>> of the last CG record of each
    fresh,            \* reference: the Windows when find_gene runs for every site
    input,            \* the argument of the operation applied last
    output,           \* the value the operation applied last returned
    placements,       \* history: the (Region, bin) pairs place_in_windows returned
    file,             \* the file at one bin output path: its content, if it exists
    save              \* per invocation of save on that path: where it is

vars == <<pc, given, args, genes, genome, max_gene_length, windows, last_gene,
          line_index, seen, ascending, last_location, fresh, input, output,
          placements, file, save>>

Unused == <<>>

(***************************************************************************)
(* Methylome files: a line read is Ok(line) or an I/O error                *)
(***************************************************************************)
\* decimal digits of n >= 0
RECURSIVE Dec(_)
Dec(n) == IF n < 10 THEN <<Digits[n + 1]>> ELSE Append(Dec(n \div 10), Digits[(n % 10) + 1])

CG == <<"C", "G">>

CHG == <<"C", "H", "G">>

\* the last five columns of a record: counts, posteriorMax, status, level
RestOfLine ==
    <<Tab, "0", Tab, "8", Tab, "0", ".", "9", Tab, "U", Tab, "0", ".", "1">>

MethylomeLine(chromosome, location, strand_symbol, context) ==
    Dec(chromosome) \o <<Tab>> \o Dec(location) \o <<Tab, strand_symbol, Tab>>
        \o context \o RestOfLine

ReadError == Err("io")

\* the longest file read, in lines, the header included
MaxLines == 3

(***************************************************************************)
(* Windows::distribution: the report of one file, as its lines             *)
(***************************************************************************)
Comma == ","

\* format!("{},{}\n", i, window.len()) for each window of an array, i from 0
DistributionRows(array) ==
    [k \in 1..Len(array) |-> Dec(k - 1) \o <<Comma>> \o Dec(Len(array[k]))]

UpstreamTitle == <<"U", "p", "s", "t", "r", "e", "a", "m">>

GeneTitle == <<"G", "e", "n", "e">>

DownstreamTitle == <<"D", "o", "w", "n", "s", "t", "r", "e", "a", "m">>

CombinedTitle == <<"C", "o", "m", "b", "i", "n", "e", "d">>

Distribution(w) ==
    <<UpstreamTitle>> \o DistributionRows(w.upstream)
        \o <<GeneTitle>> \o DistributionRows(w.gene)
        \o <<DownstreamTitle>> \o DistributionRows(w.downstream)
        \o <<CombinedTitle>> \o DistributionRows(w.upstream \o w.gene \o w.downstream)

(***************************************************************************)
(* The run of extract for one methylome file                               *)
(***************************************************************************)
\* lib.rs 28-31, 45-78, 88-97
Setup ==
    /\ pc = "start"
    /\ args' = AdjustWindowStep(args)
    /\ genome' = StructuredGenes(genes)
    /\ max_gene_length' = MaxGeneLengthOf(genes, args)
    /\ pc' = "open"
    /\ UNCHANGED <<given, genes, windows, last_gene, line_index, seen, ascending,
                   last_location, fresh, input, output, placements, file, save>>

\* extract_windows, before the loop
BeginExtract ==
    /\ pc = "open"
    /\ last_gene' = None
    /\ windows' = WindowsNew(max_gene_length, args)
    /\ fresh' = WindowsNew(max_gene_length, args)
    /\ line_index' = 0
    /\ pc' = "header"
    /\ UNCHANGED <<given, args, genes, genome, max_gene_length, seen, ascending,
                   last_location, input, output, placements, file, save>>

\* lines.enumerate().skip(1): the first line is consumed whatever it holds
SkipHeader(line_result) ==
    /\ pc = "header"
    /\ line_index' = 1
    /\ input' = line_result
    /\ pc' = "loop"
    /\ UNCHANGED <<given, args, genes, genome, max_gene_length, windows, last_gene,
                   seen, ascending, last_location, fresh, output, placements,
                   file, save>>

\* the site a line result yields: None for a read error or a rejected line
SiteOf(line_result) ==
    IF ~line_result.ok THEN None
    ELSE LET r == FromMethylomeFileLine(line_result.value, args.invert)
         IN  IF r.ok THEN Some(r.value) ELSE None

InIndex(cg) == cg.chromosome >= 1 /\ cg.chromosome <= Len(genome)

\* a loop that looks a gene up only while it holds none
SearchesWhenNone(cg) == last_gene = None

\* whether the loop body calls find_gene for cg
Searches(cg) ==
    IF last_gene = None THEN TRUE ELSE ~IsInGene(cg, last_gene[1], args.cutoff)

\* the gene extract_windows uses for cg: the sticky gene while cg is in it,
\* else what find_gene returns
NextLastGene(cg) ==
    IF Searches(cg) THEN FindGene(cg, genome, args.cutoff) ELSE last_gene

Track(line_result) ==
    LET s == SiteOf(line_result)
    IN  IF s = None THEN UNCHANGED <<ascending, last_location>>
        ELSE LET cg   == s[1]
                 prev == {p \in last_location : p[1] = cg.chromosome}
             IN  /\ ascending' = (ascending /\ \A p \in prev : p[2] <= cg.location)
                 /\ last_location' =
                        (last_location \ prev) \cup {<<cg.chromosome, cg.location>>}

\* the reference pipeline: find_gene for every parsed site
FreshStep(cg) ==
    LET found == FindGene(cg, genome, args.cutoff)
    IN  IF found = None THEN fresh
        ELSE PlaceInWindows(cg, found[1], fresh, args).windows

\* `if let Ok(line) = line_result` fails: the loop goes on
ReadFailed(line_result) ==
    /\ ~line_result.ok
    /\ pc' = pc
    /\ UNCHANGED <<windows, last_gene, fresh, output, placements>>

\* a loop that forgets its gene on a line it cannot parse
ParseFailedForgets(line_result) ==
    /\ line_result.ok
    /\ SiteOf(line_result) = None
    /\ pc' = pc
    /\ last_gene' = None
    /\ UNCHANGED <<windows, fresh, output, placements>>

\* `let Ok(cg) = ... else { continue }`
ParseFailed(line_result) ==
    /\ line_result.ok
    /\ SiteOf(line_result) = None
    /\ pc' = pc
    /\ UNCHANGED <<windows, last_gene, fresh, output, placements>>

\* a loop that skips a site whose chromosome is outside the index
OutOfRangeSkipped(line_result) ==
    /\ SiteOf(line_result) # None
    /\ Searches(SiteOf(line_result)[1])
    /\ ~InIndex(SiteOf(line_result)[1])
    /\ pc' = pc
    /\ UNCHANGED <<windows, last_gene, fresh, output, placements>>

\* find_gene indexes the genome with chromosome - 1: a panic outside the index
OutOfRange(line_result) ==
    /\ SiteOf(line_result) # None
    /\ Searches(SiteOf(line_result)[1])
    /\ ~InIndex(SiteOf(line_result)[1])
    /\ pc' = "panicked"
    /\ UNCHANGED <<windows, last_gene, fresh, output, placements>>

\* a gene is found, or the sticky gene still holds: the site is placed
Matched(line_result) ==
    /\ SiteOf(line_result) # None
    /\ LET cg == SiteOf(line_result)[1]
       IN  /\ IF Searches(cg) THEN InIndex(cg) ELSE TRUE
           /\ NextLastGene(cg) # None
           /\ last_gene' = NextLastGene(cg)
           /\ LET placed == PlaceInWindows(cg, NextLastGene(cg)[1], windows, args)
              IN  /\ windows' = placed.windows
                  /\ output' = placed.windows_in
                  /\ placements' = placements + Len(placed.windows_in)
           /\ fresh' = FreshStep(cg)
    /\ pc' = pc

\* no gene: the site is dropped
Unmatched(line_result) ==
    /\ SiteOf(line_result) # None
    /\ LET cg == SiteOf(line_result)[1]
       IN  /\ IF Searches(cg) THEN InIndex(cg) ELSE TRUE
           /\ NextLastGene(cg) = None
           /\ last_gene' = None
           /\ fresh' = FreshStep(cg)
    /\ pc' = pc
    /\ UNCHANGED <<windows, output, placements>>

\* one iteration of the loop of extract_windows
LoopBody(line_result) ==
    /\ pc = "loop"
    /\ line_index' = line_index + 1
    /\ seen' = seen \cup {line_result}
    /\ input' = line_result
    /\ Track(line_result)
    /\ \/ ReadFailed(line_result)
       \/ ParseFailed(line_result)
       \/ OutOfRange(line_result)
       \/ Matched(line_result)
       \/ Unmatched(line_result)
    /\ UNCHANGED <<given, args, genes, genome, max_gene_length, file, save>>

\* the file still has a line
ReadLine(line_result) ==
    /\ line_index < MaxLines
    /\ LoopBody(line_result)

\* the line iterator ends: Ok(windows)
EndOfFile ==
    /\ pc \in {"header", "loop"}
    /\ pc' = "extracted"
    /\ UNCHANGED <<given, args, genes, genome, max_gene_length, windows, last_gene,
                   line_index, seen, ascending, last_location, fresh, input, output,
                   placements, file, save>>

\* lib.rs: if args.invert { windows = windows.inverse() }
Inverse ==
    /\ pc = "extracted"
    /\ args.invert
    /\ input' = windows
    /\ windows' = WindowsInverse(windows)
    /\ pc' = "done"
    /\ UNCHANGED <<given, args, genes, genome, max_gene_length, last_gene,
                   line_index, seen, ascending, last_location, fresh, output, placements,
                   file, save>>

KeepDirection ==
    /\ pc = "extracted"
    /\ ~args.invert
    /\ pc' = "done"
    /\ UNCHANGED <<given, args, genes, genome, max_gene_length, windows, last_gene,
                   line_index, seen, ascending, last_location, fresh, input, output,
                   placements, file, save>>

\* lib.rs: let distribution = windows.distribution(), written next to the bins
Report ==
    /\ pc = "done"
    /\ output' = Distribution(windows)
    /\ pc' = "reported"
    /\ UNCHANGED <<given, args, genes, genome, max_gene_length, windows, last_gene,
                   line_index, seen, ascending, last_location, fresh, input,
                   placements, file, save>>

\* the state extract starts a file in, for the arguments a and the annotation
StartOf(a, annotation) ==
    /\ pc = "start"
    /\ given = a
    /\ args = a
    /\ genes = annotation
    /\ genome = Unused
    /\ max_gene_length = 0
    /\ windows = Unused
    /\ last_gene = None
    /\ line_index = 0
    /\ seen = {}
    /\ ascending = TRUE
    /\ last_location = {}
    /\ fresh = Unused
    /\ input = Unused
    /\ output = Unused
    /\ placements = 0
    /\ file = Unused
    /\ save = Unused

(***************************************************************************)
(* Spec: one file extracted against a small annotation                     *)
(***************************************************************************)
\* two genes of one strand whose flanks meet, one of the other strand, one on
\* a second chromosome; listed out of order, as an annotation file may be
Annotation ==
    <<Gene(1, 7, 8, Sense), Gene(2, 2, 3, Antisense), Gene(1, 3, 4, Sense),
      Gene(1, 5, 6, Antisense)>>

Locations == {2, 5, 9}

FileLines ==
    {Ok(MethylomeLine(1, l, s, CG)) : l \in Locations, s \in {"+", "-"}}
        \cup {Ok(MethylomeLine(2, 2, "-", CG)),
              Ok(MethylomeLine(1, 5, "+", CHG)),
              Ok(MethylomeLine(3, 5, "+", CG)),
              ReadError}

SpecArgs ==
    {Args(2, st, ab, 2, inv) : st \in {0, 1}, ab \in BOOLEAN, inv \in BOOLEAN}

Init == \E a \in SpecArgs : StartOf(a, Annotation)

Next ==
    \/ Setup
    \/ BeginExtract
    \/ \E line_result \in FileLines : SkipHeader(line_result)
    \/ \E line_result \in FileLines : ReadLine(line_result)
    \/ EndOfFile
    \/ Inverse
    \/ KeepDirection
    \/ Report

Spec == Init /\ [][Next]_vars

\* every bucket of the index holds pairwise disjoint genes in ascending order
\* of end
DisjointEndSorted(index) ==
    \A c \in 1..Len(index) :
        \A bucket \in {index[c].sense, index[c].antisense} :
            \A k \in 1..(Len(bucket) - 1) :
                /\ bucket[k].start <= bucket[k].end
                /\ bucket[k].end < bucket[k + 1].start
                /\ bucket[k + 1].start <= bucket[k + 1].end

\* C4: for an index of disjoint, end-sorted genes and lines whose CG records
\* ascend within each chromosome, extract_windows with its sticky gene yields
\* the same Windows as a pipeline that runs find_gene for every parsed site.
C4_StickyGeneIsOptimisation ==
    (pc \in {"loop", "extracted"} /\ ascending /\ DisjointEndSorted(genome))
        => windows = fresh

\* two ascending sites of one gene, the second placed through the sticky gene
C4_Witness ==
    /\ pc = "extracted"
    /\ ascending
    /\ DisjointEndSorted(genome)
    /\ ~args.invert
    /\ seen = {Ok(MethylomeLine(1, 2, "+", CG)), Ok(MethylomeLine(1, 5, "+", CG))}
    /\ last_gene = Some(Gene(1, 3, 4, Sense))
    /\ windows = fresh
    /\ windows # WindowsNew(max_gene_length, args)

(***************************************************************************)
(* SpecInverse: Windows::inverse applied to populated Windows, and again   *)
(***************************************************************************)
\* bins of each of the three arrays
InverseBins == 2

SiteA == MethylationSite(1, 5, Sense, MethylomeLine(1, 5, "+", CG))

SiteB == MethylationSite(1, 9, Sense, MethylomeLine(1, 9, "+", CG))

BinContents == {<<>>, <<SiteA>>, <<SiteA, SiteB>>}

BinArrays == [1..InverseBins -> BinContents]

PopulatedWindows == [upstream : BinArrays, gene : BinArrays, downstream : BinArrays]

InitInverse ==
    /\ pc = "populated"
    /\ windows \in PopulatedWindows
    /\ given = Args(1, 1, FALSE, 1, TRUE)
    /\ args = Args(1, 1, FALSE, 1, TRUE)
    /\ genes = Unused
    /\ genome = Unused
    /\ max_gene_length = 0
    /\ last_gene = None
    /\ line_index = 0
    /\ seen = {}
    /\ ascending = TRUE
    /\ last_location = {}
    /\ fresh = Unused
    /\ input = Unused
    /\ output = Unused
    /\ placements = 0
    /\ file = Unused
    /\ save = Unused

\* w.inverse(); input keeps w
InverseOnce ==
    /\ pc = "populated"
    /\ input' = windows
    /\ windows' = WindowsInverse(windows)
    /\ pc' = "inverted"
    /\ UNCHANGED <<given, args, genes, genome, max_gene_length, last_gene,
                   line_index, seen, ascending, last_location, fresh, output, placements,
                   file, save>>

\* w.inverse().inverse()
InverseAgain ==
    /\ pc = "inverted"
    /\ windows' = WindowsInverse(windows)
    /\ pc' = "inverted twice"
    /\ UNCHANGED <<given, args, genes, genome, max_gene_length, last_gene,
                   line_index, seen, ascending, last_location, fresh, input, output,
                   placements, file, save>>

NextInverse == InverseOnce \/ InverseAgain

SpecInverse == InitInverse /\ [][NextInverse]_vars

\* C1: the result of Windows::inverse has for upstream the reverse of
\* w.downstream, for downstream the reverse of w.upstream and for gene the
\* reverse of w.gene.
C1_InverseArrays ==
    pc = "inverted" =>
        /\ windows.upstream = Reverse(input.downstream)
        /\ windows.downstream = Reverse(input.upstream)
        /\ windows.gene = Reverse(input.gene)

\* C2: w.inverse().inverse() equals w: the same bins in the same order with
\* the same sites in the same order.
C2_InverseRoundTrip == pc = "inverted twice" => windows = input

(***************************************************************************)
(* SpecFind: find_gene against indexes of disjoint, end-sorted genes       *)
(***************************************************************************)
\* gene coordinates are 0..MaxCoord
MaxCoord == 4

\* cutoffs are 0..MaxCutoff
MaxCutoff == 2

\* the sequences of pairwise disjoint genes of one chromosome and strand, in
\* ascending order, with coordinates lo..MaxCoord
RECURSIVE BucketsFrom(_, _, _)
BucketsFrom(lo, chromosome, strand) ==
    {<<>>} \cup
        UNION {{<<Gene(chromosome, se[1], se[2], strand)>> \o rest :
                    rest \in BucketsFrom(se[2] + 1, chromosome, strand)} :
               se \in {p \in (lo..MaxCoord) \X (lo..MaxCoord) : p[1] <= p[2]}}

FindIndexes ==
    {<<[sense |-> s, antisense |-> a],
       [sense |-> <<Gene(2, 1, 2, Sense)>>, antisense |-> <<>>]>> :
        s \in BucketsFrom(0, 1, Sense),
        a \in {<<>>, <<Gene(1, 1, 2, Antisense)>>}}

FindSites ==
    {MethylationSite(c, l, st, <<>>) :
        c \in {1, 2}, l \in (0 - 1)..(MaxCoord + MaxCutoff + 1), st \in Strands}

InitFind ==
    /\ pc = "index"
    /\ genome \in FindIndexes
    /\ \E cutoff \in 0..MaxCutoff :
          /\ given = Args(1, 1, TRUE, cutoff, FALSE)
          /\ args = Args(1, 1, TRUE, cutoff, FALSE)
    /\ genes = Unused
    /\ max_gene_length = 0
    /\ windows = Unused
    /\ last_gene = None
    /\ line_index = 0
    /\ seen = {}
    /\ ascending = TRUE
    /\ last_location = {}
    /\ fresh = Unused
    /\ input = Unused
    /\ output = Unused
    /\ placements = 0
    /\ file = Unused
    /\ save = Unused

\* site.find_gene(&genome, cutoff)
Find(site) ==
    /\ pc = "index"
    /\ input' = site
    /\ output' = FindGene(site, genome, args.cutoff)
    /\ pc' = "found"
    /\ UNCHANGED <<given, args, genes, genome, max_gene_length, windows, last_gene,
                   line_index, seen, ascending, last_location, fresh, placements,
                   file, save>>

NextFind == \E site \in FindSites : Find(site)

SpecFind == InitFind /\ [][NextFind]_vars

\* the genes of the whole index
GenesOf(index) ==
    UNION {{index[c].sense[k] : k \in 1..Len(index[c].sense)}
               \cup {index[c].antisense[k] : k \in 1..Len(index[c].antisense)} :
           c \in 1..Len(index)}

\* the linear scan's test: chromosome, strand and the cutoff-extended interval
Passes(site, gene, cutoff) ==
    /\ gene.chromosome = site.chromosome
    /\ gene.strand = site.strand
    /\ gene.start - cutoff <= site.location
    /\ site.location <= gene.end + cutoff

\* C3: on an index of disjoint, end-sorted buckets find_gene returns Some(g),
\* g a gene of the index that passes the test, whenever some gene of the
\* index passes the chromosome/strand/cutoff-extended-interval test for the
\* site, and None exactly when no gene of the index passes it.
C3_FindGeneAgreesWithScan ==
    (pc = "found" /\ DisjointEndSorted(genome)) =>
        LET passing == {g \in GenesOf(genome) : Passes(input, g, args.cutoff)}
        IN  /\ (output = None) <=> (passing = {})
            /\ output # None => output[1] \in passing

\* the second of three genes found by a site in its downstream flank, where
\* the flank of the first gene also ends
C3_Witness ==
    /\ pc = "found"
    /\ DisjointEndSorted(genome)
    /\ Len(genome[1].sense) = 3
    /\ output # None
    /\ output[1] = genome[1].sense[2]
    /\ input.location > output[1].end
    /\ input.location = genome[1].sense[1].end + args.cutoff + 1

(***************************************************************************)
(* SpecPlace: place_in_windows on new Windows, the window step defaulted   *)
(* as extract defaults it                                                  *)
(***************************************************************************)
\* window sizes are 1..MaxSize
MaxSize == 2

\* window steps as given are 0..MaxStep, 0 standing for "not given"
MaxStep == 2

PlaceArgs ==
    {Args(size, step, absolute, 5, FALSE) :
        size \in 1..MaxSize, step \in 0..MaxStep, absolute \in BOOLEAN}

\* max_gene_length as extract computes it: 100, or the length of the longest
\* gene of the annotation when that is more and sizes are absolute
PlaceMaxGeneLengths(a) ==
    IF a.absolute THEN {MinMaxGeneLength, MinMaxGeneLength + 1} ELSE {MinMaxGeneLength}

PlaceGenes ==
    {Gene(1, 10, 10 + length, strand) :
        length \in {0, 1, 5, MinMaxGeneLength, MinMaxGeneLength + 1}, strand \in Strands}

\* sites about the two ends of the gene, of the gene's strand
PlaceSites(gene) ==
    {MethylationSite(gene.chromosome, l, gene.strand, <<>>) :
        l \in {gene.start + d : d \in {0 - 5, 0 - 2, 0 - 1, 0, 1, 2, 3, 5}}
                \cup {gene.end + d : d \in {0 - 1, 0, 1, 2, 5}}}

InitPlace ==
    /\ pc = "given"
    /\ given \in PlaceArgs
    /\ args = given
    /\ max_gene_length \in PlaceMaxGeneLengths(given)
    /\ genes = Unused
    /\ genome = Unused
    /\ windows = Unused
    /\ last_gene = None
    /\ line_index = 0
    /\ seen = {}
    /\ ascending = TRUE
    /\ last_location = {}
    /\ fresh = Unused
    /\ input = Unused
    /\ output = Unused
    /\ placements = 0
    /\ file = Unused
    /\ save = Unused

\* lib.rs: if args.window_step == 0 { args.window_step = args.window_size }
DefaultStep ==
    /\ pc = "given"
    /\ args' = AdjustWindowStep(args)
    /\ pc' = "adjusted"
    /\ UNCHANGED <<given, genes, genome, max_gene_length, windows, last_gene,
                   line_index, seen, ascending, last_location, fresh, input, output,
                   placements, file, save>>

\* Windows::new(max_gene_length, &args)
NewWindows ==
    /\ pc = "adjusted"
    /\ windows' = WindowsNew(max_gene_length, args)
    /\ pc' = "new"
    /\ UNCHANGED <<given, args, genes, genome, max_gene_length, last_gene,
                   line_index, seen, ascending, last_location, fresh, input, output,
                   placements, file, save>>

StorePlaced(placed) ==
    /\ windows' = placed.windows
    /\ output' = placed.windows_in
    /\ placements' = placements + Len(placed.windows_in)

\* site.place_in_windows(gene, &mut windows, &args), for a gene no longer than
\* max_gene_length and a site within the cutoff of it
Place(site, gene) ==
    /\ pc = "new"
    /\ gene.end - gene.start <= max_gene_length
    /\ IsInGene(site, gene, args.cutoff)
    /\ input' = <<site, gene>>
    /\ StorePlaced(PlaceInWindows(site, gene, windows, args))
    /\ pc' = "placed"
    /\ UNCHANGED <<given, args, genes, genome, max_gene_length, last_gene,
                   line_index, seen, ascending, last_location, fresh,
                   file, save>>

NextPlace ==
    \/ DefaultStep
    \/ NewWindows
    \/ \E gene \in PlaceGenes : \E site \in PlaceSites(gene) : Place(site, gene)

SpecPlace == InitPlace /\ [][NextPlace]_vars

\* the whole part and the fraction (numerator, denominator) of an f32 p >= 0
Whole(p) == IF p[2] >= 0 THEN p[1] * Pow2(p[2]) ELSE p[1] \div Pow2(0 - p[2])

FractionNumerator(p) == IF p[2] >= 0 THEN 0 ELSE p[1] % Pow2(0 - p[2])

FractionDenominator(p) == IF p[2] >= 0 THEN 1 ELSE Pow2(0 - p[2])

\* k - 1/10 <= p and p <= k + 1/10, in exact arithmetic, for an integer k >= 0
AtLeastLessTenth(p, k) ==
    \/ Whole(p) >= k
    \/ /\ Whole(p) = k - 1
       /\ 10 * (FractionDenominator(p) - FractionNumerator(p)) <= FractionDenominator(p)

AtMostPlusTenth(p, k) ==
    \/ Whole(p) < k
    \/ Whole(p) = k /\ 10 * FractionNumerator(p) <= FractionDenominator(p)

\* the bins the returned list names
BinsOf(list) == {list[k][2] : k \in 1..Len(list)}

RegionsOf(list) == {list[k][1] : k \in 1..Len(list)}

\* C5: with p the position of the site in its region (base pairs, or percent
\* with its fraction) and i any bin index of the region's array, the site is
\* inserted into bin i if and only if i*step - 0.1 <= p <= i*step + size + 0.1.
C5_BinMembershipRule ==
    (pc = "placed" /\ ~IsNaN(Position(input[1], input[2], args))) =>
        \A i \in 0..(Len(WindowsGet(windows, RegionOf(input[1], input[2]))) - 1) :
            (i \in BinsOf(output)) <=>
                /\ AtLeastLessTenth(Position(input[1], input[2], args),
                                    i * args.window_step)
                /\ AtMostPlusTenth(Position(input[1], input[2], args),
                                   i * args.window_step + args.window_size)

\* the site sits at the gene's transcription end: its end for a Sense gene,
\* its start for an Antisense gene
AtTranscriptionEnd(site, gene) ==
    /\ site.strand = gene.strand
    /\ site.location = IF gene.strand = Sense THEN gene.end ELSE gene.start

C9_NoOverlapAtDefaultStep ==
    (pc = "placed" /\ given.window_step = 0) => Len(output) <= 1

(***************************************************************************)
(* SpecEquiv: one site placed in absolute and in relative mode, cutoff,    *)
(* gene length and max_gene_length all 100                                 *)
(***************************************************************************)
EquivGenes == {Gene(1, 100, 200, strand) : strand \in Strands}

\* <<window_size, window_step>>
EquivSizes == {<<1, 1>>, <<2, 1>>, <<1, 2>>, <<10, 10>>}

\* the sites of the cutoff-extended interval of the gene
EquivSites(gene) ==
    {MethylationSite(1, l, gene.strand, <<>>) : l \in 0..300}

Absolute(a) == [a EXCEPT !.absolute = TRUE]

Relative(a) == [a EXCEPT !.absolute = FALSE]

InitEquiv ==
    /\ pc = "new"
    /\ \E ss \in EquivSizes :
          /\ given = Args(ss[1], ss[2], TRUE, 100, FALSE)
          /\ args = Args(ss[1], ss[2], TRUE, 100, FALSE)
    /\ max_gene_length = MinMaxGeneLength
    /\ genes = Unused
    /\ genome = Unused
    /\ windows = Unused
    /\ last_gene = None
    /\ line_index = 0
    /\ seen = {}
    /\ ascending = TRUE
    /\ last_location = {}
    /\ fresh = Unused
    /\ input = Unused
    /\ output = <<>>
    /\ placements = 0
    /\ file = Unused
    /\ save = Unused

\* output gathers the lists returned; windows is the Windows of the last call
StoreReturned(placed) ==
    /\ windows' = placed.windows
    /\ output' = Append(output, placed.windows_in)
    /\ placements' = placements + Len(placed.windows_in)

\* place_in_windows on new Windows with args.absolute
PlaceAbsolute(site, gene) ==
    /\ pc = "new"
    /\ input' = <<site, gene>>
    /\ StoreReturned(PlaceInWindows(site, gene,
                                    WindowsNew(max_gene_length, Absolute(args)),
                                    Absolute(args)))
    /\ pc' = "absolute"
    /\ UNCHANGED <<given, args, genes, genome, max_gene_length, last_gene,
                   line_index, seen, ascending, last_location, fresh,
                   file, save>>

\* the same site and gene, on new Windows with !args.absolute
PlaceRelative ==
    /\ pc = "absolute"
    /\ StoreReturned(PlaceInWindows(input[1], input[2],
                                    WindowsNew(max_gene_length, Relative(args)),
                                    Relative(args)))
    /\ pc' = "both"
    /\ UNCHANGED <<given, args, genes, genome, max_gene_length, last_gene,
                   line_index, seen, ascending, last_location, fresh, input,
                   file, save>>

NextEquiv ==
    \/ \E gene \in EquivGenes : \E site \in EquivSites(gene) : PlaceAbsolute(site, gene)
    \/ PlaceRelative

SpecEquiv == InitEquiv /\ [][NextEquiv]_vars

\* C8: with cutoff, gene length and max_gene_length all 100 and the same
\* window size and step, the list of (Region, bin index) pairs returned in
\* absolute mode is the list returned in relative mode.
C8_RelativeAbsoluteEquivalence == pc = "both" => output[1] = output[2]

(***************************************************************************)
(* SpecScenario: one Sense gene 1:100-200, cutoff 100, window size and     *)
(* step 10, relative sizes, no inversion; files made of lines of the       *)
(* scenario's file, in its order                                           *)
(***************************************************************************)
ScenarioAnnotation == <<Gene(1, 100, 200, Sense)>>

ScenarioArgs == Args(10, 10, FALSE, 100, FALSE)

ScenarioHeader == <<"s", "e", "q", Tab, "s", "t", "a", "r", "t">>

ScenarioFile ==
    <<MethylomeLine(1, 80, "+", CG),
      MethylomeLine(1, 90, "+", CHG),
      MethylomeLine(1, 100, "+", CG),
      MethylomeLine(1, 150, "+", CG),
      MethylomeLine(1, 160, "-", CG),
      MethylomeLine(1, 200, "+", CG),
      MethylomeLine(1, 201, "+", CG)>>

InitScenario == StartOf(ScenarioArgs, ScenarioAnnotation)

\* the next line read is line k of the scenario's file, a line after every
\* line read before
ReadScenarioLine(k) ==
    /\ \A j \in k..Len(ScenarioFile) : Ok(ScenarioFile[j]) \notin seen
    /\ LoopBody(Ok(ScenarioFile[k]))

NextScenario ==
    \/ Setup
    \/ BeginExtract
    \/ SkipHeader(Ok(ScenarioHeader))
    \/ \E k \in 1..Len(ScenarioFile) : ReadScenarioLine(k)
    \/ EndOfFile
    \/ KeepDirection

SpecScenario == InitScenario /\ [][NextScenario]_vars

\* the bins of an array that hold a site of the location
BinsHolding(array, location) ==
    {i \in 0..(Len(array) - 1) :
        \E k \in 1..Len(array[i + 1]) : array[i + 1][k].location = location}

\* where the Windows hold a site of the location
Holding(location) ==
    [upstream   |-> BinsHolding(windows.upstream, location),
     gene       |-> BinsHolding(windows.gene, location),
     downstream |-> BinsHolding(windows.downstream, location)]

Nowhere == [upstream |-> {}, gene |-> {}, downstream |-> {}]

ScenarioSites == {80, 100, 150, 200, 201}

\* C6, amended: in the scenario the site at 80 is placed in Upstream bins 7
\* and 8, the site at 100 in Gene bin 0, the site at 150 in Gene bins 4 and 5,
\* the site at 200 in Gene bins 9 and 10 and the site at 201 in Downstream
\* bin 0, each in no other bin; each array has 100 bins.
C6_Scenario ==
    pc \in {"loop", "extracted", "done"} =>
        LET Expected(location) ==
                CASE location = 80  -> [Nowhere EXCEPT !.upstream = {7, 8}]
                  [] location = 100 -> [Nowhere EXCEPT !.gene = {0}]
                  [] location = 150 -> [Nowhere EXCEPT !.gene = {4, 5}]
                  [] location = 200 -> [Nowhere EXCEPT !.gene = {9, 10}]
                  [] location = 201 -> [Nowhere EXCEPT !.downstream = {0}]
        IN  /\ Len(windows.upstream) = 100
            /\ Len(windows.gene) = 100
            /\ Len(windows.downstream) = 100
            /\ \A location \in ScenarioSites :
                   Holding(location) =
                       IF Ok(MethylomeLine(1, location, "+", CG)) \in seen
                       THEN Expected(location) ELSE Nowhere

\* the whole scenario file extracted
C6_Witness ==
    /\ pc = "done"
    /\ seen = {Ok(ScenarioFile[k]) : k \in 1..Len(ScenarioFile)}
    /\ Holding(150).gene = {4, 5}

\* C6 as stated: 80 is in the last Upstream bin, 100 in Gene bin 0, 150 in
\* Gene bin 50, 200 in the last Gene bin and 201 in Downstream bin 0.
C6_AsStated ==
    (pc = "done" /\ seen = {Ok(ScenarioFile[k]) : k \in 1..Len(ScenarioFile)}) =>
        /\ (Len(windows.upstream) - 1) \in Holding(80).upstream
        /\ 0 \in Holding(100).gene
        /\ 50 \in Holding(150).gene
        /\ (Len(windows.gene) - 1) \in Holding(200).gene
        /\ 0 \in Holding(201).downstream

(***************************************************************************)
(* SpecParse: from_methylome_file_line on lines put together from fields   *)
(***************************************************************************)
ChromosomeFields ==
    {<<"1">>, <<"+", "2">>, <<"2", "5", "5">>, <<"2", "5", "6">>, <<"0", "0", "7">>,
     <<"-", "1">>, <<"-", "0">>, <<"X">>, <<"+">>, <<>>}

LocationFields ==
    {<<"5">>, <<"+", "7">>, <<"-", "3">>, <<"1", "x">>, <<"-">>, <<>>,
     <<"2", "1", "4", "7", "4", "8", "3", "6", "4", "7">>,
     <<"2", "1", "4", "7", "4", "8", "3", "6", "4", "8">>,
     <<"-", "2", "1", "4", "7", "4", "8", "3", "6", "4", "8">>,
     <<"-", "2", "1", "4", "7", "4", "8", "3", "6", "4", "9">>}

StrandFields == {<<"+">>, <<"-">>, <<"*">>}

ContextFields == {CG, CHG, <<"c", "g">>}

\* what follows the context: the five columns of a record, four of them, or
\* six
RestsOfLine == {RestOfLine, SubSeq(RestOfLine, 1, 10), RestOfLine \o <<Tab, "x">>}

ParseLines ==
    {chromosome \o <<Tab>> \o location \o <<Tab>> \o strand \o <<Tab>> \o context \o rest :
        chromosome \in ChromosomeFields, location \in LocationFields,
        strand \in StrandFields, context \in ContextFields, rest \in RestsOfLine}

InitParse ==
    /\ pc = "line"
    /\ given = Unused
    /\ args = Unused
    /\ max_gene_length = 0
    /\ genes = Unused
    /\ genome = Unused
    /\ windows = Unused
    /\ last_gene = None
    /\ line_index = 0
    /\ seen = {}
    /\ ascending = TRUE
    /\ last_location = {}
    /\ fresh = Unused
    /\ input = Unused
    /\ output = Unused
    /\ placements = 0
    /\ file = Unused
    /\ save = Unused

\* MethylationSite::from_methylome_file_line(s, invert_strand)
Parse(s, invert_strand) ==
    /\ pc = "line"
    /\ input' = <<s, invert_strand>>
    /\ output' = FromMethylomeFileLine(s, invert_strand)
    /\ pc' = "parsed"
    /\ UNCHANGED <<given, args, genes, genome, max_gene_length, windows, last_gene,
                   line_index, seen, ascending, last_location, fresh, placements,
                   file, save>>

NextParse == \E s \in ParseLines : \E invert_strand \in BOOLEAN : Parse(s, invert_strand)

SpecParse == InitParse /\ [][NextParse]_vars

\* the reference: the fields of a line by the positions of its tabs
TabsOf(s) == {k \in 1..Len(s) : s[k] = Tab}

FieldCountOf(s) == Cardinality(TabsOf(s)) + 1

\* the position of the j-th tab; 0 before the first field, Len(s) + 1 after
\* the last
TabAt(s, j) ==
    IF j = 0 THEN 0
    ELSE IF j > Cardinality(TabsOf(s)) THEN Len(s) + 1
    ELSE CHOOSE t \in TabsOf(s) : Cardinality({u \in TabsOf(s) : u < t}) = j - 1

FieldOf(s, j) == SubSeq(s, TabAt(s, j - 1) + 1, TabAt(s, j) - 1)

\* the reference: decimal numerals and their range, by the digits
IsNumeral(f) == Len(f) > 0 /\ \A k \in 1..Len(f) : \E n \in 0..9 : Dec(n) = <<f[k]>>

DigitOf(c) == CHOOSE n \in 0..9 : Dec(n) = <<c>>

RECURSIVE WithoutLeadingZeros(_)
WithoutLeadingZeros(f) ==
    IF Len(f) > 1 /\ f[1] = "0" THEN WithoutLeadingZeros(Tail(f)) ELSE f

\* numeral a <= numeral b, both without leading zeros
RECURSIVE NumeralLe(_, _)
NumeralLe(a, b) ==
    IF Len(a) # Len(b) THEN Len(a) < Len(b)
    ELSE IF Len(a) = 0 THEN TRUE
    ELSE IF a[1] # b[1] THEN DigitOf(a[1]) < DigitOf(b[1])
    ELSE NumeralLe(Tail(a), Tail(b))

Unsigned(f) == IF Len(f) > 0 /\ f[1] \in {"+", "-"} THEN Tail(f) ELSE f

IsNegative(f) == Len(f) > 0 /\ f[1] = "-"

\* f is the text of an 8-bit unsigned integer: digits after an optional plus,
\* at most 255
ParsesAsU8(f) ==
    /\ ~IsNegative(f)
    /\ IsNumeral(Unsigned(f))
    /\ NumeralLe(WithoutLeadingZeros(Unsigned(f)), <<"2", "5", "5">>)

\* f is the text of a 32-bit signed integer: digits after an optional sign,
\* within -2147483648..2147483647
ParsesAsI32(f) ==
    /\ IsNumeral(Unsigned(f))
    /\ NumeralLe(WithoutLeadingZeros(Unsigned(f)),
                 IF IsNegative(f)
                 THEN <<"2", "1", "4", "7", "4", "8", "3", "6", "4", "8">>
                 ELSE <<"2", "1", "4", "7", "4", "8", "3", "6", "4", "7">>)

\* 10^n
RECURSIVE TenTo(_)
TenTo(n) == IF n = 0 THEN 1 ELSE 10 * TenTo(n - 1)

\* the number a numeral of at most 10 significant digits stands for, times sign
RECURSIVE SignedSum(_, _)
SignedSum(digits, sign) ==
    IF Len(digits) = 0 THEN 0
    ELSE sign * DigitOf(digits[1]) * TenTo(Len(digits) - 1)
            + SignedSum(Tail(digits), sign)

ValueOf(f) ==
    SignedSum(WithoutLeadingZeros(Unsigned(f)), IF IsNegative(f) THEN 0 - 1 ELSE 1)

\* C10: from_methylome_file_line(line, invert) is Ok if and only if the line
\* has exactly 9 tab-separated fields, field 4 is "CG", field 1 is the text of
\* an 8-bit unsigned integer and field 2 the text of a 32-bit signed integer;
\* the site then has that chromosome and location, strand Sense exactly when
\* (field 3 = "+") differs from invert, and the whole line as original.
C10_ParserEqualsReference ==
    pc = "parsed" =>
        LET line   == input[1]
            invert == input[2]
            valid  == /\ FieldCountOf(line) = 9
                      /\ FieldOf(line, 4) = <<"C", "G">>
                      /\ ParsesAsU8(FieldOf(line, 1))
                      /\ ParsesAsI32(FieldOf(line, 2))
        IN  /\ output.ok <=> valid
            /\ output.ok =>
                   /\ output.value.chromosome = ValueOf(FieldOf(line, 1))
                   /\ output.value.location = ValueOf(FieldOf(line, 2))
                   /\ (output.value.strand = Sense)
                          <=> ((FieldOf(line, 3) = <<"+">>) # invert)
                   /\ output.value.strand \in Strands
                   /\ output.value.original = line

\* an accepted line at the ends of both ranges, its strand symbol neither
\* plus nor minus, the strand inverted
C10_Witness ==
    /\ pc = "parsed"
    /\ output.ok
    /\ input[2]
    /\ FieldOf(input[1], 3) = <<"*">>
    /\ output.value.strand = Sense
    /\ output.value.chromosome = 255
    /\ output.value.location = I32Min

(***************************************************************************)
(* SpecErrors: one file whose lines fail to read, fail to parse or name a  *)
(* chromosome outside the index                                            *)
(***************************************************************************)
\* a record with the given first two fields
Record(chromosome_field, location_field, context) ==
    chromosome_field \o <<Tab>> \o location_field \o <<Tab, "+", Tab>>
        \o context \o RestOfLine

\* a CG record cut after its fourth field
ShortLine == <<"1", Tab, "5", Tab, "+", Tab, "C", "G">>

RejectedLines ==
    {Ok(Record(<<"1">>, <<"5">>, CHG)),
     Ok(ShortLine),
     Ok(Record(<<"x">>, <<"5">>, CG)),
     Ok(Record(<<"1">>, <<"5", "b">>, CG))}

OutsideLines == {Ok(MethylomeLine(c, 5, "+", CG)) : c \in {0, 3}}

ErrorLines ==
    {Ok(MethylomeLine(1, l, "+", CG)) : l \in Locations}
        \cup RejectedLines \cup OutsideLines \cup {ReadError}

ErrorArgs == {Args(2, 1, ab, 2, inv) : ab \in BOOLEAN, inv \in BOOLEAN}

InitErrors == \E a \in ErrorArgs : StartOf(a, Annotation)

NextErrors ==
    \/ Setup
    \/ BeginExtract
    \/ \E line_result \in ErrorLines : SkipHeader(line_result)
    \/ \E line_result \in ErrorLines : ReadLine(line_result)
    \/ EndOfFile
    \/ Inverse
    \/ KeepDirection

SpecErrors == InitErrors /\ [][NextErrors]_vars

\* the step consumes a line after the header
LineStep == pc = "loop" /\ line_index' = line_index + 1

\* C11: a line the site parser rejects leaves every bin of Windows and the
\* sticky gene as they were and the loop goes on to the next line (from where
\* the end of the file returns Ok); the first line of the file is consumed the
\* same way whatever it holds.
C11_ParseFailureSkipsLine ==
    [][/\ (LineStep /\ input'.ok /\ SiteOf(input') = None)
            => (windows' = windows /\ last_gene' = last_gene /\ pc' = "loop")
       /\ (pc = "header" /\ line_index' = 1)
            => (windows' = windows /\ last_gene' = last_gene /\ pc' = "loop")
       /\ (pc = "loop" /\ pc' = "extracted") => windows' = windows]_vars

\* a rejected line read while a gene is held and a bin is filled
C11_Witness ==
    /\ pc = "loop"
    /\ line_index = MaxLines
    /\ input \in RejectedLines
    /\ last_gene # None
    /\ windows # WindowsNew(max_gene_length, args)

\* C12 (as stated): extract_windows never returns Ok(Windows) for a file in
\* which a line read failed.
C12_ReadFailureIsFatal ==
    pc = "extracted" => ReadError \notin seen

\* C13: a line that parses to a CG site whose chromosome is 0 or beyond the
\* index aborts the extraction, whatever the sticky gene is: the site enters
\* no bin, the loop does not go on and nothing is returned after the abort.
C13_OutOfRangeChromosomeAborts ==
    [][/\ (LineStep /\ input' \in OutsideLines)
            => (pc' = "panicked" /\ windows' = windows)
       /\ pc # "panicked"]_vars

\* the abort happens while a gene is held
C13_Witness ==
    /\ pc = "panicked"
    /\ input \in OutsideLines
    /\ last_gene # None
    /\ windows # WindowsNew(max_gene_length, args)

(***************************************************************************)
(* The distribution report of one file                                     *)
(***************************************************************************)
\* the line of the report that holds a title
TitleAt(lines, title) == CHOOSE k \in 1..Len(lines) : lines[k] = title

CommaIn(row) == CHOOSE k \in 1..Len(row) : row[k] = Comma

RowIndex(row) == ValueOf(SubSeq(row, 1, CommaIn(row) - 1))

RowCount(row) == ValueOf(SubSeq(row, CommaIn(row) + 1, Len(row)))

\* the rows between a title and the next one (or the end of the report)
Section(lines, title, next) == SubSeq(lines, title + 1, next - 1)

Counts(rows) == [k \in 1..Len(rows) |-> RowCount(rows[k])]

RECURSIVE SumOf(_)
SumOf(counts) == IF counts = <<>> THEN 0 ELSE Head(counts) + SumOf(Tail(counts))

UpstreamRows(lines) ==
    Section(lines, TitleAt(lines, UpstreamTitle), TitleAt(lines, GeneTitle))

GeneRows(lines) ==
    Section(lines, TitleAt(lines, GeneTitle), TitleAt(lines, DownstreamTitle))

DownstreamRows(lines) ==
    Section(lines, TitleAt(lines, DownstreamTitle), TitleAt(lines, CombinedTitle))

CombinedRows(lines) ==
    Section(lines, TitleAt(lines, CombinedTitle), Len(lines) + 1)

\* the counts of the three sections sum to the placements recorded
CountsSumToPlacements(lines) ==
    SumOf(Counts(UpstreamRows(lines))) + SumOf(Counts(GeneRows(lines)))
        + SumOf(Counts(DownstreamRows(lines))) = placements

\* Combined lists the counts of Upstream, Gene, Downstream in this order under
\* the indices 0, 1, 2, ...
CombinedInOrder(lines) ==
    /\ Counts(CombinedRows(lines)) =
           Counts(UpstreamRows(lines)) \o Counts(GeneRows(lines))
               \o Counts(DownstreamRows(lines))
    /\ \A k \in 1..Len(CombinedRows(lines)) : RowIndex(CombinedRows(lines)[k]) = k - 1

\* C14 (as stated): in the report of a file, written after extract_windows and,
\* with the invert flag, after inverse, the counts of the Upstream, Gene and
\* Downstream sections sum to the number of (Region, bin) placements
\* place_in_windows recorded, and Combined lists the same counts in the order
\* Upstream, Gene, Downstream under the indices 0, 1, 2, ...
C14_DistributionCountsPlacements ==
    pc = "reported" => (CountsSumToPlacements(output) /\ CombinedInOrder(output))

(***************************************************************************)
(* SpecBins: Windows::new, then place_in_windows and inverse in any order  *)
(***************************************************************************)
\* the calls made on one Windows
MaxCalls == 3

BinsGene == Gene(1, 10, 15, Sense)

\* an upstream site, a gene site and two downstream sites, one at the cutoff
BinsSites == {MethylationSite(1, l, Sense, <<>>) : l \in {8, 12, 17, 20}}

BinsArgs == {Args(2, step, ab, 5, FALSE) : step \in {1, 3}, ab \in BOOLEAN}

BinsMaxGeneLengths == {7, 100}

InitBins ==
    /\ pc = "given"
    /\ given \in BinsArgs
    /\ args = given
    /\ genes = <<BinsGene>>
    /\ genome = Unused
    /\ max_gene_length \in BinsMaxGeneLengths
    /\ windows = Unused
    /\ last_gene = None
    /\ line_index = 0
    /\ seen = {}
    /\ ascending = TRUE
    /\ last_location = {}
    /\ fresh = Unused
    /\ input = Unused
    /\ output = Unused
    /\ placements = 0
    /\ file = Unused
    /\ save = Unused

\* Windows::new(max_gene_length, &args)
NewBins ==
    /\ pc = "given"
    /\ windows' = WindowsNew(max_gene_length, args)
    /\ pc' = "bins"
    /\ UNCHANGED <<given, args, genes, genome, max_gene_length, last_gene,
                   line_index, seen, ascending, last_location, fresh, input, output,
                   placements, file, save>>

\* the Windows exists
BinsStates == {"bins", "placed", "inverted"}

\* line_index counts the calls, seen holds their kinds, pc the kind of the last
\* one and fresh the Windows before it
Called(kind, after) ==
    /\ pc \in BinsStates
    /\ line_index < MaxCalls
    /\ line_index' = line_index + 1
    /\ seen' = seen \cup {kind}
    /\ fresh' = windows
    /\ pc' = after
    /\ UNCHANGED <<given, args, genes, genome, max_gene_length, last_gene,
                   ascending, last_location, file, save>>

\* site.place_in_windows(gene, &mut windows, &args)
PlaceInBins(site) ==
    /\ Called("place", "placed")
    /\ input' = site
    /\ StorePlaced(PlaceInWindows(site, genes[1], windows, args))

\* windows = windows.inverse()
InverseOfBins ==
    /\ Called("inverse", "inverted")
    /\ windows' = WindowsInverse(windows)
    /\ UNCHANGED <<input, output, placements>>

NextBins ==
    \/ NewBins
    \/ \E site \in BinsSites : PlaceInBins(site)
    \/ InverseOfBins

SpecBins == InitBins /\ [][NextBins]_vars

AllEmpty(array) == \A k \in 1..Len(array) : array[k] = <<>>

\* C15: Windows::new creates max_gene_length / step Gene bins and cutoff / step
\* Upstream and Downstream bins in absolute mode (integer division), 100 bins
\* in each array in relative mode, all empty; after any sequence of
\* place_in_windows and inverse calls the three arrays still have these
\* lengths.
C15_BinCountsFixed ==
    pc \in BinsStates =>
        /\ Len(windows.gene) =
               (IF args.absolute THEN max_gene_length \div args.window_step ELSE 100)
        /\ Len(windows.upstream) =
               (IF args.absolute THEN args.cutoff \div args.window_step ELSE 100)
        /\ Len(windows.downstream) = Len(windows.upstream)
        /\ line_index = 0 =>
               /\ AllEmpty(windows.upstream)
               /\ AllEmpty(windows.gene)
               /\ AllEmpty(windows.downstream)

\* 7 / 3 = 2 Gene bins and 5 / 3 = 1 flank bin, after placements and an inverse
C15_Witness ==
    /\ pc \in BinsStates
    /\ args.absolute
    /\ args.window_step = 3
    /\ max_gene_length = 7
    /\ line_index = MaxCalls
    /\ seen = {"place", "inverse"}
    /\ placements > 1
    /\ ~AllEmpty(windows.gene)
    /\ Len(windows.gene) = 2
    /\ Len(windows.upstream) = 1

(***************************************************************************)
(* SpecSave: invocations of Windows::save that open the same bin path      *)
(***************************************************************************)
\* concurrent invocations on one path
MaxSavers == 2

Savers == 1..MaxSavers

Newline == "\n"

HeaderLine ==
    <<"seqnames", Tab, "start", Tab, "strand", Tab, "context", Tab,
      "counts.methylated", Tab, "counts.total", Tab, "posteriorMax", Tab,
      "status", Tab, "rc.meth.lvl">>

\* cg_sites.iter().map(|e| &e.original).join("\n")
RECURSIVE JoinLines(_)
JoinLines(originals) ==
    IF originals = <<>> THEN <<>>
    ELSE IF Len(originals) = 1 THEN originals[1]
    ELSE originals[1] \o <<Newline>> \o JoinLines(Tail(originals))

\* the sites of one bin, by their original lines
SavedBins ==
    {<<>>,
     <<MethylomeLine(1, 5, "+", CG)>>,
     <<MethylomeLine(1, 5, "+", CG), MethylomeLine(1, 9, "+", CG)>>}

\* the path before the invocations: no file, an empty file, or a file an
\* earlier save wrote
SavedBefore ==
    {None, Some(<<>>),
     Some(HeaderLine \o <<Newline>> \o MethylomeLine(1, 2, "+", CG))}

InitSave ==
    /\ pc = "saving"
    /\ file \in SavedBefore
    /\ save \in [Savers -> {[pc |-> "open", len |-> 0, cg_sites |-> b] : b \in SavedBins}]
    /\ given = Unused
    /\ args = Unused
    /\ genes = Unused
    /\ genome = Unused
    /\ max_gene_length = 0
    /\ windows = Unused
    /\ last_gene = None
    /\ line_index = 0
    /\ seen = {}
    /\ ascending = TRUE
    /\ last_location = {}
    /\ fresh = Unused
    /\ input = Unused
    /\ output = Unused
    /\ placements = 0

SaveFrame ==
    UNCHANGED <<pc, given, args, genes, genome, max_gene_length, windows, last_gene,
                line_index, seen, ascending, last_location, fresh, input, output,
                placements>>

\* OpenOptions::new().append(true).create(true).open(&output_file)
OpenOrCreate(p) ==
    /\ save[p].pc = "open"
    /\ file' = (IF file = None THEN Some(<<>>) ELSE file)
    /\ save' = [save EXCEPT ![p].pc = "metadata"]
    /\ SaveFrame

\* file.metadata().unwrap().len()
ReadLength(p) ==
    /\ save[p].pc = "metadata"
    /\ save' = [save EXCEPT ![p].len = Len(file[1]), ![p].pc = "header"]
    /\ UNCHANGED file
    /\ SaveFrame

\* if len == 0 { file.write_all(header) }: an append to the end of the file
WriteHeader(p) ==
    /\ save[p].pc = "header"
    /\ file' = (IF save[p].len = 0 THEN Some(file[1] \o HeaderLine \o <<Newline>>)
                ELSE file)
    /\ save' = [save EXCEPT ![p].pc = "sites"]
    /\ SaveFrame

\* file.write_all(the originals joined by "\n")
WriteSites(p) ==
    /\ save[p].pc = "sites"
    /\ file' = Some(file[1] \o JoinLines(save[p].cg_sites))
    /\ save' = [save EXCEPT ![p].pc = "done"]
    /\ SaveFrame

NextSave ==
    \E p \in Savers :
        \/ OpenOrCreate(p)
        \/ ReadLength(p)
        \/ WriteHeader(p)
        \/ WriteSites(p)

SpecSave == InitSave /\ [][NextSave]_vars

\* where the header's text begins in the content of a file
HeaderStarts(content) ==
    {k \in 1..(Len(content) - Len(HeaderLine) + 1) :
        SubSeq(content, k, k + Len(HeaderLine) - 1) = HeaderLine}

\* C16 (as stated): under every interleaving of save invocations that open the
\* same path, the file left behind holds the header line exactly once, as its
\* first line.
C16_HeaderExactlyOnce ==
    (\A p \in Savers : save[p].pc = "done") =>
        /\ HeaderStarts(file[1]) = {1}
        /\ file[1][Len(HeaderLine) + 1] = Newline

(***************************************************************************)
(* SpecIsIn: is_in_gene for one gene, one site and one cutoff              *)
(***************************************************************************)
IsInGenes ==
    {Gene(1, a, b, st) : a \in 0..MaxCoord, b \in 0..MaxCoord, st \in Strands}

IsInSites ==
    {MethylationSite(c, l, st, <<>>) :
        c \in {1, 2}, l \in (0 - 1)..(MaxCoord + 1), st \in Strands}

\* negative cutoffs included
IsInCutoffs == (0 - 2)..(MaxCoord + 2)

InitIsIn ==
    /\ pc = "given"
    /\ \E gene \in IsInGenes : gene.start <= gene.end /\ genes = <<gene>>
    /\ input \in IsInSites
    /\ \E cutoff \in IsInCutoffs : given = Args(1, 1, TRUE, cutoff, FALSE)
    /\ args = given
    /\ genome = Unused
    /\ max_gene_length = 0
    /\ windows = Unused
    /\ last_gene = None
    /\ line_index = 0
    /\ seen = {}
    /\ ascending = TRUE
    /\ last_location = {}
    /\ fresh = Unused
    /\ output = Unused
    /\ placements = 0
    /\ file = Unused
    /\ save = Unused

\* site.is_in_gene(&gene, cutoff)
IsIn ==
    /\ pc = "given"
    /\ output' = IsInGene(input, genes[1], args.cutoff)
    /\ pc' = "tested"
    /\ UNCHANGED <<given, args, genes, genome, max_gene_length, windows, last_gene,
                   line_index, seen, ascending, last_location, fresh, input,
                   placements, file, save>>

NextIsIn == IsIn

SpecIsIn == InitIsIn /\ [][NextIsIn]_vars

SameChromosomeAndStrand(site, gene) ==
    site.chromosome = gene.chromosome /\ site.strand = gene.strand

\* C17: with equal chromosome and strand, is_in_gene(g, 0) is true for a site
\* in [g.start, g.end]; for a site below the gene is_in_gene(g, cutoff) is
\* true exactly for cutoff >= g.start - location, for a site above the gene
\* exactly for cutoff >= location - g.end; with another chromosome or strand
\* it is false for every cutoff.
C17_IsInGeneContainment ==
    pc = "tested" =>
        LET g      == genes[1]
            cutoff == args.cutoff
        IN  IF ~SameChromosomeAndStrand(input, g) THEN output = FALSE
            ELSE /\ (g.start <= input.location /\ input.location <= g.end
                        /\ cutoff = 0) => output = TRUE
                 /\ input.location < g.start =>
                        (output <=> cutoff >= g.start - input.location)
                 /\ input.location > g.end =>
                        (output <=> cutoff >= input.location - g.end)

\* a site below the gene, reached by a cutoff of exactly the distance
C17_Witness ==
    /\ pc = "tested"
    /\ SameChromosomeAndStrand(input, genes[1])
    /\ input.location < genes[1].start
    /\ args.cutoff = genes[1].start - input.location
    /\ output = TRUE

\* p <= k in exact arithmetic, for an f32 p >= 0 and an integer k
AtMost(p, k) == Whole(p) < k \/ (Whole(p) = k /\ FractionNumerator(p) = 0)

\* the interval of bin i holds the position: i*step - 1/10 <= p <= i*step + size
IntervalHolds(p, i, a) ==
    /\ AtLeastLessTenth(p, i * a.window_step)
    /\ AtMost(p, i * a.window_step + a.window_size)

\* the bins of an array of n whose interval holds the position
BinsHoldingPosition(p, n, a) == {i \in 0..(n - 1) : IntervalHolds(p, i, a)}

\* the list names exactly the bins of the region, in ascending order
NamesAscending(list, region, bins) ==
    /\ Len(list) = Cardinality(bins)
    /\ BinsOf(list) = bins
    /\ \A k \in 1..Len(list) : list[k][1] = region
    /\ \A k \in 1..(Len(list) - 1) : list[k][2] < list[k + 1][2]

\* the site is appended to the bins of the region and nothing else changes
AppendedTo(before, after, site, region, bins) ==
    \A r \in {Upstream, GeneRegion, Downstream} :
        /\ Len(WindowsGet(after, r)) = Len(WindowsGet(before, r))
        /\ \A k \in 1..Len(WindowsGet(before, r)) :
               WindowsGet(after, r)[k] =
                   IF r = region /\ (k - 1) \in bins
                   THEN Append(WindowsGet(before, r)[k], site)
                   ELSE WindowsGet(before, r)[k]

\* the list and the frame of one call, fresh being the Windows before it
ListAndFrame ==
    LET region == RegionOf(input, genes[1])
        bins   == BinsHoldingPosition(Position(input, genes[1], args),
                                      Len(WindowsGet(fresh, region)), args)
    IN  /\ NamesAscending(output, region, bins)
        /\ AppendedTo(fresh, windows, input, region, bins)

\* absolute windows of size 2 every 1 bp, and a position of 2 bp or more
SizeTwoStepOne ==
    /\ args.absolute
    /\ args.window_step = 1
    /\ args.window_size = 2
    /\ Whole(Position(input, genes[1], args)) >= 2

ThreeBinsUpTo(p) == {p - 2, p - 1, p}

MaxGenes == 3

\* gene coordinates are 0..MaxStart
MaxStart == 2

IndexGenes ==
    {Gene(c, a, b, st) : c \in {1, 2}, a \in 0..MaxStart, b \in 0..MaxStart,
                         st \in Strands}

InitIndex ==
    /\ pc = "parsed"
    /\ \E n \in 1..MaxGenes :
           /\ genes \in [1..n -> IndexGenes]
           /\ \A k \in 1..n : genes[k].start <= genes[k].end
    /\ given = Unused
    /\ args = Unused
    /\ genome = Unused
    /\ max_gene_length = 0
    /\ windows = Unused
    /\ last_gene = None
    /\ line_index = 0
    /\ seen = {}
    /\ ascending = TRUE
    /\ last_location = {}
    /\ fresh = Unused
    /\ input = Unused
    /\ output = Unused
    /\ placements = 0
    /\ file = Unused
    /\ save = Unused

\* lib.rs: chromosome_count, sort_by_key, structured_genes
BuildIndex ==
    /\ pc = "parsed"
    /\ genome' = StructuredGenes(genes)
    /\ pc' = "built"
    /\ UNCHANGED <<given, args, genes, max_gene_length, windows, last_gene,
                   line_index, seen, ascending, last_location, fresh, input, output,
                   placements, file, save>>

NextIndex == BuildIndex

SpecIndex == InitIndex /\ [][NextIndex]_vars

\* how often x occurs in a list
Occurrences(list, x) == Cardinality({k \in 1..Len(list) : list[k] = x})

\* the bucket holds exactly the genes of the list with this chromosome and
\* strand, as often as the list does
HoldsGenesOf(bucket, list, c, strand) ==
    /\ \A k \in 1..Len(bucket) : bucket[k].chromosome = c /\ bucket[k].strand = strand
    /\ \A g \in IndexGenes :
           (g.chromosome = c /\ g.strand = strand) =>
               Occurrences(bucket, g) = Occurrences(list, g)

AscendingByEnd(bucket) ==
    \A k \in 1..(Len(bucket) - 1) : bucket[k].end <= bucket[k + 1].end

BucketsHoldTheGenes ==
    \A c \in 1..Len(genome) :
        /\ HoldsGenesOf(genome[c].sense, genes, c, Sense)
        /\ HoldsGenesOf(genome[c].antisense, genes, c, Antisense)

\* C19 (as stated): for every list of parsed genes with start <= end, each
\* (chromosome, strand) bucket of the index holds exactly the input genes of
\* that chromosome and strand, in ascending order of gene end.
C19_BucketsSortedByEnd ==
    pc = "built" =>
        /\ BucketsHoldTheGenes
        /\ \A c \in 1..Len(genome) :
               AscendingByEnd(genome[c].sense) /\ AscendingByEnd(genome[c].antisense)

\* C20 (as stated): on an index of pairwise disjoint, end-sorted genes and for
\* every cutoff >= 0, a site inside the body [start, end] of a gene of its own
\* chromosome and strand gets that gene from find_gene.
C20_EnclosingGeneWins ==
    (pc = "found" /\ DisjointEndSorted(genome)) =>
        \A g \in GenesOf(genome) :
            (Passes(input, g, 0)) => output = Some(g)

(***************************************************************************)
(* SpecLost: place_in_windows for sites is_in_gene accepts, genes at small *)
(* coordinates and genes beyond 2^24 bp, where f32 no longer holds every   *)
(* integer                                                                 *)
(***************************************************************************)
\* beyond 2^24 bp f32 holds the even coordinates only: 2^24 + 3 becomes
\* 2^24 + 4

LostStarts == {10, 16777219}

LostLengths == {1, 4, 100}

LostGenes ==
    {Gene(1, start, start + length, strand) :
        start \in LostStarts, length \in LostLengths, strand \in Strands}

LostCutoffs == {0, 4}

LostArgs ==
    {Args(size, step, absolute, cutoff, FALSE) :
        size \in 1..MaxSize, step \in 1..MaxStep, absolute \in BOOLEAN,
        cutoff \in LostCutoffs}

LostMaxGeneLengths == {4, 100}

\* sites about the two ends of the gene and the ends of its flanks
LostSites(gene) ==
    {MethylationSite(gene.chromosome, l, gene.strand, <<>>) :
        l \in {gene.start + d : d \in {0 - 4, 0 - 3, 0 - 1, 0, 1, 2}}
                \cup {gene.end + d : d \in {0 - 1, 0, 1, 3, 4}}}

InitLost ==
    /\ pc = "given"
    /\ given \in LostArgs
    /\ args = given
    /\ max_gene_length \in LostMaxGeneLengths
    /\ genes = Unused
    /\ genome = Unused
    /\ windows = Unused
    /\ last_gene = None
    /\ line_index = 0
    /\ seen = {}
    /\ ascending = TRUE
    /\ last_location = {}
    /\ fresh = Unused
    /\ input = Unused
    /\ output = Unused
    /\ placements = 0
    /\ file = Unused
    /\ save = Unused

NextLost ==
    \/ DefaultStep
    \/ NewWindows
    \/ \E gene \in LostGenes : \E site \in LostSites(gene) : Place(site, gene)

SpecLost == InitLost /\ [][NextLost]_vars

\* the steps and sizes the claim is about
StepsFitWindows ==
    /\ 1 <= args.window_step
    /\ args.window_step <= args.window_size
    /\ args.absolute =>
           /\ args.cutoff % args.window_step = 0
           /\ max_gene_length % args.window_step = 0

NeverNegative(p) == ~F32Lt(p, F32Zero)

\* C21 (as stated): when 1 <= step <= size and, in absolute mode, step divides
\* cutoff and max_gene_length, then for every gene with start < end no longer
\* than max_gene_length and every site is_in_gene accepts, place_in_windows on
\* new Windows returns a non-empty list and the position it computes is not
\* negative.
C21_NoMatchedSiteLost ==
    (pc = "placed" /\ StepsFitWindows /\ input[2].start < input[2].end) =>
        /\ output # <<>>
        /\ NeverNegative(Position(input[1], input[2], args))

=============================================================================
